---------------------------- MODULE Spec2Model ----------------------------
(***************************************************************************)
(* A model of the SCOPE sales pipeline:                                    *)
(*   - the schema resolver      (scope/utils/data_utils.py)                *)
(*   - the sales aggregator     (scope/utils/data_utils.py)                *)
(*   - calendar completion, feature build, per-category training and the   *)
(*     forecast                 (TEST/scripts/sales_prediction_model.py)   *)
(*                                                                         *)
(* Tables are sequences of rows, a row is a record keyed by column name.   *)
(* A date is a whole number of days since 1970-01-01; a timestamp is       *)
(* date * SlotsPerDay + the time-of-day slot.  A missing cell (pandas NaN  *)
(* / NaT) is the value NaN.                                                *)
(***************************************************************************)
EXTENDS Integers, Sequences, FiniteSets, TLC

VARIABLES
    \* ---- schema resolver (one call of find_column_by_pattern) ----
    df_columns,        \* the table's column names, in column order
    patterns,          \* the pattern list
    resolved,          \* the column name returned, NoColumn before the return
    warned,            \* TRUE once the fallback warning was printed
    rpc,               \* "call" | "returned" | "raised"
    \* ---- file finder (one call of find_file) ----
    filename,          \* the file name asked for
    directory,         \* the directory searched
    existing,          \* the paths for which os.path.exists is true
    found,             \* the path returned, NoPath before the return
    file_warned,       \* TRUE once the not-found warning was printed
    fpc,               \* "call" | "returned"
    \* ---- sales aggregator ----
    transactions,      \* the transactions table
    transaction_items, \* the transaction line items
    products,          \* the products table
    sales_data,        \* the joined rows (local of prepare_sales_data)
    spc,               \* "load" | "prepare" | "done"
    \* ---- pipeline (main) ----
    daily_sales,       \* the SalesRecords: one row per (date, category)
    external_factors,  \* the external-factor table
    complete_sales,    \* the dense grid (local of load_and_prepare_data, line 126)
    data,              \* the feature table load_and_prepare_data returns
    models,            \* main's dict category -> model, in insertion order
    artifacts,         \* the model files written under MODELS_DIR
    forecast_df,       \* generate_forecast's table
    predict_calls,     \* the calls of model.predict made so far
    forecast_csv,      \* the forecast file written, NoTable before
    err,               \* the exception that ended the run, "none" otherwise
    nan_ok,            \* whether the installed regressor fits data with NaN
    days,              \* generate_forecast's horizon argument
    prep_category,     \* prepare_features' selected_category argument
    prepared,          \* what prepare_features returned, NoFeatures before
    pc,                \* "load" | "train" | "forecast" | "done" | "failed"
    \* ---- key columns (the "Identify key columns" block) ----
    tx_columns,        \* the column names of the transactions file
    ext_columns,       \* the column names of the external-factors file
    key_columns,       \* the date columns identified, NoKeys before
    kpc                \* "identify" | "identified" | "raised"

resolver_vars == <<df_columns, patterns, resolved, warned, rpc>>
file_vars     == <<filename, directory, existing, found, file_warned, fpc>>
prep_vars     == <<prep_category, prepared>>
role_vars     == <<tx_columns, ext_columns, key_columns, kpc>>
sales_vars    == <<transactions, transaction_items, products, sales_data, spc>>
main_vars     == <<external_factors, complete_sales, data, models, artifacts,
                   forecast_df, predict_calls, forecast_csv, err, nan_ok, days,
                   pc>>
vars == <<resolver_vars, file_vars, sales_vars, daily_sales, main_vars,
         prep_vars, role_vars>>

----------------------------------------------------------------------------
(* Bounds of the model                                                     *)

MaxCols     == 2   \* columns of a table given to the resolver
MaxPatterns == 2   \* patterns of a pattern list
MaxItems    == 2   \* rows of the transaction-items table
MaxProducts == 2   \* rows of the products table
SlotsPerDay == 2   \* times of day a timestamp distinguishes
MaxSales    == 2   \* SalesRecords given to the calendar completer
MaxExt      == 2   \* rows of the external-factor table
MaxDay      == 4   \* the dates of the model are BaseDay .. BaseDay + MaxDay
BaseDay     == 19720   \* the first date of the model: 2023-12-29, a Friday

(* Generic helpers                                                         *)

NaN == 0 - 1

Range(s) == {s[i] : i \in DOMAIN s}

SeqsUpTo(S, n) == UNION {[1..k -> S] : k \in 0..n}

RECURSIVE ConcatAll(_)
ConcatAll(ss) == IF ss = <<>> THEN <<>> ELSE Head(ss) \o ConcatAll(Tail(ss))

RECURSIVE SumSet(_, _)
\* the sum of f[x] over the finite set S
SumSet(S, f) ==
    IF S = {} THEN 0
    ELSE LET x == CHOOSE y \in S : TRUE IN f[x] + SumSet(S \ {x}, f)

Min(S) == CHOOSE x \in S : \A y \in S : x <= y
Max(S) == CHOOSE x \in S : \A y \in S : x >= y

----------------------------------------------------------------------------
(* Schema resolver: find_column_by_pattern                                 *)

NoColumn == <<>>

\* Column names and patterns are strings, modelled as sequences of
\* one-character strings so that lower() and the substring test are computed.
Name_Date   == <<"D", "a", "t", "e">>
Name_time   == <<"t", "i", "m", "e">>
Name_ID     == <<"I", "D">>
Name_qty    == <<"q", "t", "y">>
Pat_date    == <<"d", "a", "t", "e">>
Pat_time    == <<"t", "i", "m", "e">>
Pat_Id      == <<"I", "d">>
Pat_x       == <<"x">>
Pat_empty   == <<>>

ColumnNames  == {Name_Date, Name_time, Name_ID, Name_qty}
PatternNames == {Pat_date, Pat_time, Pat_Id, Pat_x, Pat_empty}

\* str.lower(), on the letters the names use
LowerChar(c) ==
    CASE c = "D" -> "d"
      [] c = "I" -> "i"
      [] c = "A" -> "a"
      [] c = "B" -> "b"
      [] OTHER   -> c

lower(s) == [i \in DOMAIN s |-> LowerChar(s[i])]

\* Python's  a in b  on strings: a is a contiguous substring of b
Contains(a, b) ==
    \E i \in 0..(Len(b) - Len(a)) : SubSeq(b, i + 1, i + Len(a)) = a

\* A plausible slip: the list comprehension keeps the lower-cased name.
RECURSIVE find_column_by_pattern_lowered(_, _)
find_column_by_pattern_lowered(columns, pats) ==
    IF pats = <<>>
    THEN IF columns = <<>>
         THEN [result |-> NoColumn, warned |-> TRUE, raised |-> "IndexError"]
         ELSE [result |-> columns[1], warned |-> TRUE, raised |-> "none"]
    ELSE LET matching_cols ==
                 SelectSeq(columns,
                           LAMBDA col : Contains(lower(Head(pats)), lower(col)))
         IN  IF matching_cols # <<>>
             THEN [result |-> lower(matching_cols[1]), warned |-> FALSE,
                   raised |-> "none"]
             ELSE find_column_by_pattern_lowered(columns, Tail(pats))

\* A plausible slip: the loops are nested the other way round, columns
\* outside and patterns inside, so that column order wins over pattern order.
RECURSIVE find_column_by_pattern_by_column(_, _)
find_column_by_pattern_by_column(columns, pats) ==
    LET hit(col) == \E i \in DOMAIN pats : Contains(lower(pats[i]), lower(col))
        matching_cols == SelectSeq(columns, hit)
    IN  IF matching_cols # <<>>
        THEN [result |-> matching_cols[1], warned |-> FALSE, raised |-> "none"]
        ELSE IF columns = <<>>
             THEN [result |-> NoColumn, warned |-> TRUE, raised |-> "IndexError"]
             ELSE [result |-> columns[1], warned |-> TRUE, raised |-> "none"]

\* A plausible slip: the fallback is silent and takes the last column.
RECURSIVE find_column_by_pattern_silent(_, _)
find_column_by_pattern_silent(columns, pats) ==
    IF pats = <<>>
    THEN IF columns = <<>>
         THEN [result |-> NoColumn, warned |-> FALSE, raised |-> "IndexError"]
         ELSE [result |-> columns[Len(columns)], warned |-> FALSE,
               raised |-> "none"]
    ELSE LET matching_cols ==
                 SelectSeq(columns,
                           LAMBDA col : Contains(lower(Head(pats)), lower(col)))
         IN  IF matching_cols # <<>>
             THEN [result |-> matching_cols[1], warned |-> FALSE,
                   raised |-> "none"]
             ELSE find_column_by_pattern_silent(columns, Tail(pats))

RECURSIVE find_column_by_pattern(_, _)
find_column_by_pattern(columns, pats) ==
    IF pats = <<>>
    THEN \* no pattern matched: warn, then df.columns[0]
         IF columns = <<>>
         THEN [result |-> NoColumn, warned |-> TRUE, raised |-> "IndexError"]
         ELSE [result |-> columns[1], warned |-> TRUE, raised |-> "none"]
    ELSE LET matching_cols ==
                 SelectSeq(columns,
                           LAMBDA col : Contains(lower(Head(pats)), lower(col)))
         IN  IF matching_cols # <<>>
             THEN [result |-> matching_cols[1], warned |-> FALSE,
                   raised |-> "none"]
             ELSE find_column_by_pattern(columns, Tail(pats))

ResolverIdle ==
    /\ df_columns = <<>>
    /\ patterns = <<>>
    /\ resolved = NoColumn
    /\ warned = FALSE
    /\ rpc = "idle"

SalesIdle ==
    /\ transactions = <<>>
    /\ transaction_items = <<>>
    /\ products = <<>>
    /\ sales_data = <<>>
    /\ spc = "idle"

NoTable == [columns |-> <<>>, rows |-> <<>>]

\* the columns of a table whose dtype is object; a table without the field
\* has none
object_columns(df) ==
    IF "object_columns" \in DOMAIN df THEN df.object_columns ELSE {}

MainIdle ==
    /\ external_factors = <<>>
    /\ complete_sales = <<>>
    /\ data = NoTable
    /\ models = <<>>
    /\ artifacts = {}
    /\ forecast_df = NoTable
    /\ predict_calls = <<>>
    /\ forecast_csv = NoTable
    /\ err = "none"
    /\ nan_ok = FALSE
    /\ days = 0
    /\ pc = "idle"

NoPath == <<>>

FileIdle ==
    /\ filename = <<>>
    /\ directory = ""
    /\ existing = {}
    /\ found = NoPath
    /\ file_warned = FALSE
    /\ fpc = "idle"

NoFeatures == <<>>

PrepIdle ==
    /\ prep_category = ""
    /\ prepared = NoFeatures

NoKeys == <<>>

RolesIdle ==
    /\ tx_columns = <<>>
    /\ ext_columns = <<>>
    /\ key_columns = NoKeys
    /\ kpc = "idle"

InitResolve ==
    /\ df_columns \in SeqsUpTo(ColumnNames, MaxCols)
    /\ patterns \in SeqsUpTo(PatternNames, MaxPatterns)
    /\ resolved = NoColumn
    /\ warned = FALSE
    /\ rpc = "call"
    /\ SalesIdle
    /\ daily_sales = <<>>
    /\ MainIdle
    /\ FileIdle
    /\ PrepIdle
    /\ RolesIdle

call_find_column_by_pattern ==
    /\ rpc = "call"
    /\ LET r == find_column_by_pattern(df_columns, patterns)
       IN  /\ resolved' = r.result
           /\ warned' = r.warned
           /\ rpc' = IF r.raised = "none" THEN "returned" ELSE "raised"
    /\ UNCHANGED <<df_columns, patterns, sales_vars, daily_sales, main_vars,
                   file_vars, prep_vars,
                   role_vars>>

NextResolve == call_find_column_by_pattern

SpecResolve == InitResolve /\ [][NextResolve]_vars

\* C10 (as claimed): for all tables T and all pattern lists P,
\* find_column_by_pattern(T, P) returns a column name that is one of T's columns.
C10_ReturnsColumnOfAnyTable ==
    rpc # "call" => (rpc = "returned" /\ resolved \in Range(df_columns))

\* C10 (amended): for all tables T with at least one column and all pattern
\* lists P, the call returns, and the name returned is one of T's columns.
C10_ReturnsColumnOfTable ==
    (rpc # "call" /\ df_columns # <<>>)
        => (rpc = "returned" /\ resolved \in Range(df_columns))

\* C10 witness: a call with patterns that match nothing fell back to a column
\* of a table whose first column differs from its second.
C10_Witness ==
    /\ rpc = "returned"
    /\ warned
    /\ patterns # <<>>
    /\ Len(df_columns) = 2
    /\ df_columns[1] # df_columns[2]
    /\ resolved = df_columns[1]

\* pattern p is a case-insensitive substring of column name col
Matches(p, col) == Contains(lower(p), lower(col))

\* the positions of the patterns that match at least one column of the table
MatchingPatterns ==
    {i \in DOMAIN patterns :
        \E j \in DOMAIN df_columns : Matches(patterns[i], df_columns[j])}

\* C11: the call returns, for the first pattern in list order that is a
\* case-insensitive substring of at least one column name, the earliest such
\* column in the table's column order; the result is a function of the table
\* and the pattern list alone.
C11_FirstPatternThenFirstColumn ==
    (rpc # "call" /\ MatchingPatterns # {})
        => LET p == patterns[Min(MatchingPatterns)]
               j == Min({k \in DOMAIN df_columns : Matches(p, df_columns[k])})
           IN  /\ rpc = "returned"
               /\ resolved = df_columns[j]

\* C11 witness: the first pattern matches the second column only, the second
\* pattern matches the first column; the second column was returned.
C11_Witness ==
    /\ rpc = "returned"
    /\ Len(patterns) = 2
    /\ Len(df_columns) = 2
    /\ ~Matches(patterns[1], df_columns[1])
    /\ Matches(patterns[1], df_columns[2])
    /\ Matches(patterns[2], df_columns[1])
    /\ resolved = df_columns[2]
    /\ resolved # df_columns[1]

\* C12 (as claimed): when no pattern matches any column the call returns the
\* table's first column, warns and does not raise; it warns in that case only.
C12_FallbackOnAnyTable ==
    rpc # "call" =>
        /\ MatchingPatterns = {} =>
              (rpc = "returned" /\ warned /\ resolved = df_columns[1])
        /\ warned => MatchingPatterns = {}

\* C12 (amended): on a table with at least one column, when no pattern matches
\* any column the call returns the table's first column, warns and does not
\* raise; on any table the warning is printed in the no-match case only.
C12_FallbackOnTableWithColumns ==
    rpc # "call" =>
        /\ (MatchingPatterns = {} /\ df_columns # <<>>) =>
              (rpc = "returned" /\ warned /\ resolved = df_columns[1])
        /\ (MatchingPatterns = {} /\ df_columns = <<>>) =>
              (rpc = "raised" /\ warned)
        /\ warned => MatchingPatterns = {}

\* C12 witness: two patterns, neither matches either of two different columns;
\* the first column came back with the warning.
C12_Witness ==
    /\ rpc = "returned"
    /\ Len(patterns) = 2
    /\ Len(df_columns) = 2
    /\ df_columns[1] # df_columns[2]
    /\ MatchingPatterns = {}
    /\ warned
    /\ resolved = df_columns[1]

----------------------------------------------------------------------------
(* File finder: find_file                                                  *)

MaxNameLen == 2   \* characters of a file name

\* File names are strings of letters whose case matters, modelled like column
\* names; "a" is lower case, "A" and "B" are upper case.
NameChars == {"a", "A", "B"}
FileNames == UNION {[1..k -> NameChars] : k \in 1..MaxNameLen}
Directories == {"data", "backup"}

UpperChar(c) ==
    CASE c = "a" -> "A"
      [] c = "b" -> "B"
      [] OTHER   -> c

\* str.capitalize(): the first character upper-cased, the REST LOWER-CASED
capitalize(s) ==
    IF s = <<>> THEN <<>> ELSE <<UpperChar(Head(s))>> \o lower(Tail(s))

\* the marker of the second candidate, f"lowercase_{filename}"
lowercase_ == <<"l", "o", "w", "e", "r", "c", "a", "s", "e", "_">>

\* os.path.join(directory, name) for a plain file name: the file of that name
\* in that directory
join(dir, name) == [dir |-> dir, name |-> name]

\* A plausible slip: the lowercase_ variant is tried before the exact name.
find_file_variant_first(fname, dir, exists) ==
    LET exact_path == join(dir, fname)
        lowercase_path == join(dir, lowercase_ \o fname)
        capitalized_path == join(dir, capitalize(fname))
    IN  IF lowercase_path \in exists
        THEN [path |-> lowercase_path, warned |-> FALSE]
        ELSE IF exact_path \in exists
        THEN [path |-> exact_path, warned |-> FALSE]
        ELSE IF capitalized_path \in exists
        THEN [path |-> capitalized_path, warned |-> FALSE]
        ELSE [path |-> exact_path, warned |-> TRUE]

\* A plausible slip: the default is the last path tried, returned silently.
find_file_last_tried(fname, dir, exists) ==
    LET exact_path == join(dir, fname)
        lowercase_path == join(dir, lowercase_ \o fname)
        capitalized_path == join(dir, capitalize(fname))
    IN  IF exact_path \in exists
        THEN [path |-> exact_path, warned |-> FALSE]
        ELSE IF lowercase_path \in exists
        THEN [path |-> lowercase_path, warned |-> FALSE]
        ELSE IF capitalized_path \in exists
        THEN [path |-> capitalized_path, warned |-> FALSE]
        ELSE [path |-> capitalized_path, warned |-> FALSE]

find_file(fname, dir, exists) ==
    LET exact_path == join(dir, fname)
        lowercase_path == join(dir, lowercase_ \o fname)
        capitalized_path == join(dir, capitalize(fname))
    IN  IF exact_path \in exists
        THEN [path |-> exact_path, warned |-> FALSE]
        ELSE IF lowercase_path \in exists
        THEN [path |-> lowercase_path, warned |-> FALSE]
        ELSE IF capitalized_path \in exists
        THEN [path |-> capitalized_path, warned |-> FALSE]
        ELSE \* none exists: warn, return the standard path
             [path |-> exact_path, warned |-> TRUE]

\* the name with its first letter upper-cased and the rest left as it is
FirstLetterCapitalized(s) ==
    IF s = <<>> THEN <<>> ELSE <<UpperChar(Head(s))>> \o Tail(s)

\* The files that may exist when find_file(fname, dir) is called: the name and
\* its variants in the directory, and the name in every other directory.
FilesAround(fname, dir) ==
    {join(dir, n) : n \in {fname, lowercase_ \o fname, capitalize(fname),
                           FirstLetterCapitalized(fname)}}
        \cup {join(d, fname) : d \in Directories \ {dir}}

InitFind ==
    /\ filename \in FileNames
    /\ directory \in Directories
    /\ existing \in SUBSET FilesAround(filename, directory)
    /\ found = NoPath
    /\ file_warned = FALSE
    /\ fpc = "call"
    /\ ResolverIdle
    /\ SalesIdle
    /\ daily_sales = <<>>
    /\ MainIdle
    /\ PrepIdle
    /\ RolesIdle

call_find_file ==
    /\ fpc = "call"
    /\ LET r == find_file(filename, directory, existing)
       IN  /\ found' = r.path
           /\ file_warned' = r.warned
    /\ fpc' = "returned"
    /\ UNCHANGED <<filename, directory, existing, resolver_vars, sales_vars,
                   daily_sales, main_vars, prep_vars,
                   role_vars>>

NextFind == call_find_file

SpecFind == InitFind /\ [][NextFind]_vars

\* the first path of the list that exists, NoPath if none does
RECURSIVE FirstExisting(_)
FirstExisting(paths) ==
    IF paths = <<>> THEN NoPath
    ELSE IF Head(paths) \in existing THEN Head(paths)
    ELSE FirstExisting(Tail(paths))

\* the candidates as the claim lists them
ClaimedCandidates ==
    <<join(directory, filename),
      join(directory, lowercase_ \o filename),
      join(directory, FirstLetterCapitalized(filename))>>

\* the candidates find_file tries
Candidates ==
    <<join(directory, filename),
      join(directory, lowercase_ \o filename),
      join(directory, capitalize(filename))>>

\* C13 (as claimed): find_file returns the first existing path among
\* directory/filename, directory/lowercase_<filename> and directory/<filename
\* with its first letter capitalized and the rest unchanged>.
C13_FirstExistingOfClaimedCandidates ==
    (fpc = "returned" /\ FirstExisting(ClaimedCandidates) # NoPath)
        => found = FirstExisting(ClaimedCandidates)

\* C13 (amended): find_file returns the first existing path among
\* directory/filename, directory/lowercase_<filename> and
\* directory/filename.capitalize(), the name with its first letter upper-cased
\* and every other letter lower-cased; the exact path wins over a variant.
C13_FirstExistingOfCandidates ==
    (fpc = "returned" /\ FirstExisting(Candidates) # NoPath)
        => found = FirstExisting(Candidates)

\* C13 witness: a mixed-case name whose capitalized candidate differs from the
\* name with only its first letter changed; both these files exist, the exact
\* and lowercase_ ones do not, and the capitalize() one was returned.
C13_Witness ==
    /\ fpc = "returned"
    /\ capitalize(filename) # FirstLetterCapitalized(filename)
    /\ capitalize(filename) # filename
    /\ existing = {join(directory, capitalize(filename)),
                   join(directory, FirstLetterCapitalized(filename))}
    /\ found = join(directory, capitalize(filename))

\* C14: when none of the three candidate paths exists find_file returns the
\* exact path directory/filename and warns (the call always returns); it warns
\* in that case only, and the path returned is always one of the three
\* candidates, inside the given directory.
C14_DefaultsToExactPath ==
    fpc = "returned" =>
        /\ FirstExisting(Candidates) = NoPath
              => (found = join(directory, filename) /\ file_warned)
        /\ file_warned => FirstExisting(Candidates) = NoPath
        /\ found \in Range(Candidates)
        /\ found.dir = directory

\* C14 witness: the file exists in another directory only, and under a name
\* that is no candidate; the capitalized candidate differs from the exact one;
\* the exact path came back with the warning.
C14_Witness ==
    /\ fpc = "returned"
    /\ existing # {}
    /\ \E p \in existing : p.dir # directory
    /\ capitalize(filename) # filename
    /\ FirstExisting(Candidates) = NoPath
    /\ file_warned
    /\ found = join(directory, filename)
    /\ found \notin existing

----------------------------------------------------------------------------
(* Sales aggregator: load_datasets and prepare_sales_data                  *)
(* (scope/utils/data_utils.py; lines 95-112 of sales_prediction_model.py   *)
(* are the same code without the line total)                               *)

Categories == {"handgun", "rifle"}

\* the order of the category strings (Python's string order)
CatRank == [c \in Categories |-> IF c = "handgun" THEN 1 ELSE 2]

Ids        == {1, 2}
Quantities == {1, 2}
Amounts    == {10}

\* the timestamps of the model: two times of the first day, one of the next
Time_d0_early == BaseDay * SlotsPerDay
Time_d0_late  == BaseDay * SlotsPerDay + 1
Time_d1_early == (BaseDay + 1) * SlotsPerDay
TxnTimes == {Time_d0_early, Time_d0_late, Time_d1_early}

Txn(id, ts) == [transaction_id |-> id, transaction_date |-> ts]

\* the transactions tables of the model: none, one, two of a day at different
\* times, two of different days, a repeated id, an unsorted table
TxnTables ==
    { <<>>,
      <<Txn(1, Time_d0_early)>>,
      <<Txn(2, Time_d0_late)>>,
      <<Txn(1, Time_d0_early), Txn(2, Time_d0_late)>>,
      <<Txn(1, Time_d0_late), Txn(2, Time_d1_early)>>,
      <<Txn(1, Time_d0_early), Txn(1, Time_d1_early)>>,
      <<Txn(2, Time_d1_early), Txn(1, Time_d0_early)>> }

ItemRows    == [transaction_id : Ids, product_id : Ids,
                quantity : Quantities, line_total : Amounts]
ProductRows == [product_id : Ids, category : Categories]

\* A plausible slip: the time of day is kept (no .dt.date).
ToDate_KeepTime(ts) == ts

\* pd.to_datetime(ts.dt.date): the calendar date of a timestamp, the time of
\* day truncated
ToDate(ts) == ts \div SlotsPerDay

\* left.merge(right, on=key): an inner join, in the order of the left rows;
\* a left row is repeated once for every right row with the same key
merge(left, right, key) ==
    ConcatAll([i \in 1..Len(left) |->
        LET m == SelectSeq(right, LAMBDA r : r[key] = left[i][key])
        IN  [j \in 1..Len(m) |-> left[i] @@ m[j]]])

\* the row label (index) of each row of a frame, kept with the row so that a
\* joined row can be traced to the item row it came from
WithRowLabel(rows) == [i \in 1..Len(rows) |-> rows[i] @@ [item_row |-> i]]

KeyLess(a, b) ==
    \/ a[1] < b[1]
    \/ a[1] = b[1] /\ CatRank[a[2]] < CatRank[b[2]]

RECURSIVE SortKeys(_)
\* the keys of S in increasing order, as groupby delivers its groups
SortKeys(S) ==
    IF S = {} THEN <<>>
    ELSE LET k == CHOOSE x \in S : \A y \in S \ {x} : KeyLess(x, y)
         IN  <<k>> \o SortKeys(S \ {k})

RECURSIVE SumCol(_, _)
SumCol(rows, col) ==
    IF rows = <<>> THEN 0 ELSE Head(rows)[col] + SumCol(Tail(rows), col)

\* A plausible slip: no aggregation, one output row per joined row.
GroupBySum_PerRow(rows) ==
    [i \in 1..Len(rows) |->
        [date |-> rows[i].date, category |-> rows[i].category,
         quantity_sold |-> rows[i].quantity,
         sales_amount |-> rows[i].line_total]]

\* sales_data.groupby(['date', category_col]).agg(sum, sum).reset_index()
GroupBySum(rows) ==
    LET keys == SortKeys({<<r.date, r.category>> : r \in Range(rows)})
    IN  [i \in 1..Len(keys) |->
            LET g == SelectSeq(rows, LAMBDA r : r.date = keys[i][1]
                                               /\ r.category = keys[i][2])
            IN  [date |-> keys[i][1], category |-> keys[i][2],
                 quantity_sold |-> SumCol(g, "quantity"),
                 sales_amount |-> SumCol(g, "line_total")]]

InitSales ==
    /\ transactions \in TxnTables
    /\ transaction_items \in SeqsUpTo(ItemRows, MaxItems)
    /\ products \in SeqsUpTo(ProductRows, MaxProducts)
    /\ sales_data = <<>>
    /\ daily_sales = <<>>
    /\ spc = "load"
    /\ ResolverIdle
    /\ MainIdle
    /\ FileIdle
    /\ PrepIdle
    /\ RolesIdle

\* load_datasets, after the files are read and the roles resolved: the
\* transactions get their 'date' column
load_datasets ==
    /\ spc = "load"
    /\ transactions' = [i \in 1..Len(transactions) |->
            transactions[i] @@
                [date |-> ToDate(transactions[i].transaction_date)]]
    /\ spc' = "prepare"
    /\ UNCHANGED <<transaction_items, products, sales_data, daily_sales,
                   resolver_vars, main_vars, file_vars, prep_vars,
                   role_vars>>

\* prepare_sales_data: join, then aggregate by (date, category)
prepare_sales_data ==
    /\ spc = "prepare"
    /\ LET joined == merge(merge(WithRowLabel(transaction_items),
                                 transactions, "transaction_id"),
                           [i \in 1..Len(products) |->
                               [product_id |-> products[i].product_id,
                                category |-> products[i].category]],
                           "product_id")
       IN  /\ sales_data' = joined
           /\ daily_sales' = GroupBySum(joined)
    /\ spc' = "done"
    /\ UNCHANGED <<transactions, transaction_items, products,
                   resolver_vars, main_vars, file_vars, prep_vars,
                   role_vars>>

NextSales == load_datasets \/ prepare_sales_data

SpecSales == InitSales /\ [][NextSales]_vars

\* the (item, transaction, product) triples the two joins pair up
JoinedTriples ==
    {t \in (DOMAIN transaction_items) \X (DOMAIN transactions) \X (DOMAIN products) :
        /\ transaction_items[t[1]].transaction_id = transactions[t[2]].transaction_id
        /\ transaction_items[t[1]].product_id = products[t[3]].product_id}

TriplesOf(d, c) ==
    {t \in JoinedTriples :
        /\ transactions[t[2]].transaction_date \div SlotsPerDay = d
        /\ products[t[3]].category = c}

\* C7: after aggregation there is at most one SalesRecord per
\* (date, category) pair.
C7_OneRecordPerDateCategory ==
    spc = "done" =>
        \A i, j \in DOMAIN daily_sales :
            (daily_sales[i].date = daily_sales[j].date
             /\ daily_sales[i].category = daily_sales[j].category) => i = j

\* C7 witness: two items of two transactions and two products fell into one
\* (date, category) group.
C7_Witness ==
    /\ spc = "done"
    /\ Len(daily_sales) = 1
    /\ \E a, b \in DOMAIN sales_data :
          /\ sales_data[a].item_row # sales_data[b].item_row
          /\ sales_data[a].transaction_date # sales_data[b].transaction_date
          /\ sales_data[a].product_id # sales_data[b].product_id

\* C8 (as claimed): every item row is dropped or paired with exactly one
\* transaction row and one product row: an item with no matching transaction
\* or product contributes to no SalesRecord, an item with a match contributes
\* its quantity exactly once.
C8_ItemPairedExactlyOnce ==
    spc = "done" =>
        LET Matched(i) ==
                /\ \E t \in DOMAIN transactions :
                      transactions[t].transaction_id
                          = transaction_items[i].transaction_id
                /\ \E p \in DOMAIN products :
                      products[p].product_id = transaction_items[i].product_id
            Copies(i) == Cardinality({k \in DOMAIN sales_data :
                                         sales_data[k].item_row = i})
        IN  /\ \A i \in DOMAIN transaction_items :
                  Copies(i) = IF Matched(i) THEN 1 ELSE 0
            /\ SumCol(daily_sales, "quantity_sold")
                  = SumSet({i \in DOMAIN transaction_items : Matched(i)},
                           [i \in DOMAIN transaction_items |->
                               transaction_items[i].quantity])

\* C9: every SalesRecord's quantity_sold (sales_amount) is the sum of the
\* quantities (amounts) of the joined item rows whose transaction's calendar
\* date, the time of day truncated, and whose product's category are the
\* record's; every such non-empty group has its record.
C9_SumPerCalendarDateAndCategory ==
    spc = "done" =>
        /\ \A k \in DOMAIN daily_sales :
              LET T == TriplesOf(daily_sales[k].date, daily_sales[k].category)
              IN  /\ T # {}
                  /\ daily_sales[k].quantity_sold
                        = SumSet(T, [t \in T |-> transaction_items[t[1]].quantity])
                  /\ daily_sales[k].sales_amount
                        = SumSet(T, [t \in T |-> transaction_items[t[1]].line_total])
        /\ \A t \in JoinedTriples :
              \E k \in DOMAIN daily_sales :
                  /\ daily_sales[k].date
                        = transactions[t[2]].transaction_date \div SlotsPerDay
                  /\ daily_sales[k].category = products[t[3]].category

\* C9 witness: two transactions of the same day at different times of day
\* were summed into one record.
C9_Witness ==
    /\ spc = "done"
    /\ \E a, b \in DOMAIN sales_data :
          /\ sales_data[a].transaction_date # sales_data[b].transaction_date
          /\ sales_data[a].date = sales_data[b].date
          /\ sales_data[a].category = sales_data[b].category
          /\ \E k \in DOMAIN daily_sales :
                /\ daily_sales[k].date = sales_data[a].date
                /\ daily_sales[k].category = sales_data[a].category
                /\ daily_sales[k].quantity_sold
                      >= sales_data[a].quantity + sales_data[b].quantity

----------------------------------------------------------------------------
(* Calendar completion and feature build: load_and_prepare_data from line  *)
(* 114 on (TEST/scripts/sales_prediction_model.py)                         *)

CV_FOLDS     == 5    \* cross_val_score(model, X, y, cv=5)
DEFAULT_DAYS == 90   \* generate_forecast(..., days=90)

\* main_config.PRODUCT_CATEGORIES, cut to the two categories of the model
PRODUCT_CATEGORIES == <<"handgun", "rifle">>

Days == BaseDay..(BaseDay + MaxDay)

\* the columns of the external-factor table besides its date column, and the
\* values a cell of each can take
ExternalFactorCols == <<"political_climate", "legislation_risk">>
ExtRows == [date : Days, political_climate : {NaN, 3, 5},
            legislation_risk : {NaN, 7}]
SaleRows == [date : Days, category : Categories, quantity_sold : Quantities]

\* the year, month and day of a date (days since 1970-01-01), proleptic
\* Gregorian calendar
Civil(z) ==
    LET zz  == z + 719468
        era == zz \div 146097
        doe == zz - era * 146097
        yoe == (doe - doe \div 1460 + doe \div 36524 - doe \div 146096) \div 365
        doy == doe - (365 * yoe + yoe \div 4 - yoe \div 100)
        mp  == (5 * doy + 2) \div 153
        d   == doy - (153 * mp + 2) \div 5 + 1
        m   == IF mp < 10 THEN mp + 3 ELSE mp - 9
        y   == yoe + era * 400 + (IF m <= 2 THEN 1 ELSE 0)
    IN  [year |-> y, month |-> m, day |-> d]

\* A plausible slip: the week starts on Sunday.
TimeFeatures_sunday_first(date) ==
    LET c   == Civil(date)
        dow == (date + 4) % 7
    IN  [dayofweek |-> dow, month |-> c.month, day |-> c.day,
         year |-> c.year, quarter |-> (c.month - 1) \div 3 + 1,
         is_weekend |-> IF dow >= 5 THEN 1 ELSE 0]

\* the six time-based columns (lines 129-134 and 253-258); 1970-01-01 was a
\* Thursday and Monday is 0
TimeFeatures(date) ==
    LET c   == Civil(date)
        dow == (date + 3) % 7
    IN  [dayofweek |-> dow, month |-> c.month, day |-> c.day,
         year |-> c.year, quarter |-> (c.month - 1) \div 3 + 1,
         is_weekend |-> IF dow >= 5 THEN 1 ELSE 0]

\* A plausible slip: the end of the range is left out.
date_range_open(a, b) == [i \in 1..(b - a) |-> a + i - 1]

\* pd.date_range(a, b, freq='D')
date_range(a, b) == [i \in 1..(b - a + 1) |-> a + i - 1]

RECURSIVE unique(_)
\* Series.unique(): the distinct values in order of first appearance
unique(s) ==
    IF s = <<>> THEN <<>>
    ELSE LET rest == unique(SubSeq(s, 1, Len(s) - 1))
         IN  IF s[Len(s)] \in Range(rest) THEN rest
             ELSE Append(rest, s[Len(s)])

\* A plausible slip: the product is built category by category.
from_product_by_category(dates, cats) ==
    ConcatAll([j \in 1..Len(cats) |->
        [i \in 1..Len(dates) |-> [date |-> dates[i], category |-> cats[j]]]])

\* pd.MultiIndex.from_product([all_dates, categories]): date by date, the
\* categories in their order within each date
from_product(dates, cats) ==
    ConcatAll([i \in 1..Len(dates) |->
        [j \in 1..Len(cats) |-> [date |-> dates[i], category |-> cats[j]]]])

\* A plausible slip: the join is keyed on the date alone.
merge_sales_on_date(grid, sales) ==
    ConcatAll([i \in 1..Len(grid) |->
        LET m == SelectSeq(sales, LAMBDA r : r.date = grid[i].date)
        IN  IF m = <<>>
            THEN <<grid[i] @@ [quantity_sold |-> NaN]>>
            ELSE [j \in 1..Len(m) |->
                     grid[i] @@ [quantity_sold |-> m[j].quantity_sold]]])

\* date_category_df.merge(daily_sales, on=['date', category_col], how='left')
merge_sales(grid, sales) ==
    ConcatAll([i \in 1..Len(grid) |->
        LET m == SelectSeq(sales, LAMBDA r : r.date = grid[i].date
                                           /\ r.category = grid[i].category)
        IN  IF m = <<>>
            THEN <<grid[i] @@ [quantity_sold |-> NaN]>>
            ELSE [j \in 1..Len(m) |->
                     grid[i] @@ [quantity_sold |-> m[j].quantity_sold]]])

\* Series.fillna(v) on one column
fillna(rows, col, v) ==
    [i \in 1..Len(rows) |->
        [rows[i] EXCEPT ![col] = IF @ = NaN THEN v ELSE @]]

\* complete_sales.merge(external_factors, left_on='date', right_on=<date>,
\* how='left'): one row per matching external-factor row, the factor cells
\* missing when there is none
merge_external(rows, ext) ==
    ConcatAll([i \in 1..Len(rows) |->
        LET m == SelectSeq(ext, LAMBDA e : e.date = rows[i].date)
        IN  IF m = <<>>
            THEN <<rows[i] @@ [c \in Range(ExternalFactorCols) |-> NaN]>>
            ELSE [j \in 1..Len(m) |->
                     rows[i] @@ [c \in Range(ExternalFactorCols) |-> m[j][c]]]])

RECURSIVE ffill_from(_, _, _)
\* prev: the cells of the row above, after its own fill
ffill_from(rows, cols, prev) ==
    IF rows = <<>> THEN <<>>
    ELSE LET r == Head(rows)
             f == [c \in DOMAIN r |->
                      IF c \in cols /\ r[c] = NaN THEN prev[c] ELSE r[c]]
         IN  <<f>> \o ffill_from(Tail(rows), cols, f)

\* A plausible slip: limit=1, a missing cell takes the value the row above
\* had before the fill.
ffill_limit_one(rows, cols) ==
    [i \in 1..Len(rows) |->
        [c \in DOMAIN rows[i] |->
            IF c \in cols /\ rows[i][c] = NaN /\ i > 1
            THEN rows[i - 1][c] ELSE rows[i][c]]]

\* A plausible slip: the missing cells are left as they are.
ffill_none(rows, cols) == rows

\* DataFrame[cols].fillna(method='ffill'): down the rows of the table, a
\* missing cell takes the value of the row above
ffill(rows, cols) == ffill_from(rows, cols, [c \in cols |-> NaN])

DataColumns ==
    <<"date", "category", "quantity_sold", "dayofweek", "month", "day",
      "year", "quarter", "is_weekend">> \o ExternalFactorCols

\* the dense grid of lines 114-126
complete(sales) ==
    LET dates     == {sales[i].date : i \in DOMAIN sales}
        min_date  == Min(dates)
        max_date  == Max(dates)
        all_dates == date_range(min_date, max_date)
        cats      == unique([i \in DOMAIN sales |-> sales[i].category])
    IN  fillna(merge_sales(from_product(all_dates, cats), sales),
               "quantity_sold", 0)

\* lines 128-141: time features, external factors, forward fill
build_features(grid, ext) ==
    LET timed == [i \in 1..Len(grid) |-> grid[i] @@ TimeFeatures(grid[i].date)]
    IN  ffill(merge_external(timed, ext), Range(ExternalFactorCols))

\* The feature table.  read_csv gives the columns of an external-factor file
\* without rows the dtype object, and float64 to a column of numbers and
\* empty cells; the left join of line 137 keeps that dtype.
feature_table(rows, ext) ==
    [columns |-> DataColumns,
     rows |-> rows,
     object_columns |-> IF ext = <<>> THEN Range(ExternalFactorCols) ELSE {}]

\* load_and_prepare_data, from the SalesRecords on.  With no SalesRecord
\* min() and max() are NaT and pd.date_range raises ValueError.
load_and_prepare_data ==
    /\ pc = "load"
    /\ IF daily_sales = <<>>
       THEN /\ pc' = "failed"
            /\ err' = "ValueError"
            /\ UNCHANGED <<complete_sales, data>>
       ELSE /\ complete_sales' = complete(daily_sales)
            /\ data' = feature_table(build_features(complete_sales',
                                                    external_factors),
                                     external_factors)
            /\ pc' = "train"
            /\ err' = "none"
    /\ UNCHANGED <<daily_sales, external_factors, models, artifacts,
                   forecast_df, predict_calls, forecast_csv, nan_ok, days,
                   resolver_vars, sales_vars, file_vars, prep_vars,
                   role_vars>>

----------------------------------------------------------------------------
(* Training: prepare_features, evaluate_model, train_model                 *)

\* A float cell of the training matrix is a fraction num/den in lowest
\* terms; 0/0 is NaN (the mean of no values).
RECURSIVE Gcd(_, _)
Gcd(a, b) == IF b = 0 THEN a ELSE Gcd(b, a % b)

Frac(n, d) ==
    IF d = 0 THEN [num |-> 0, den |-> 0]
    ELSE LET g == Gcd(n, d) IN [num |-> n \div g, den |-> d \div g]

NaNf == Frac(0, 0)

\* Series.mean(): over the cells that are not missing
mean(cells) ==
    LET known == SelectSeq(cells, LAMBDA v : v # NaN)
    IN  Frac(SumSet(DOMAIN known, known), Len(known))

\* Series.mode()[0]: the most frequent of the cells that are not missing,
\* the least of them when several are as frequent
mode(cells) ==
    LET known == {cells[i] : i \in {j \in DOMAIN cells : cells[j] # NaN}}
        count(v) == Cardinality({i \in DOMAIN cells : cells[i] = v})
    IN  Min({v \in known : \A w \in known : count(v) >= count(w)})

\* A plausible slip: the mean and the mode are taken over the whole table,
\* before the category filter.
prepare_features_global(df, selected_category) ==
    LET category_data ==
            SelectSeq(df.rows, LAMBDA r : r.category = selected_category)
        feature_cols ==
            SelectSeq(df.columns, LAMBDA c : c \notin {"date", "category"})
        whole(c) == [i \in 1..Len(df.rows) |-> df.rows[i][c]]
        has_na(c) == \E i \in DOMAIN df.rows : df.rows[i][c] = NaN
        numeric(c) == c \notin object_columns(df)
        no_mode == \E c \in Range(feature_cols) :
                       /\ has_na(c) /\ ~numeric(c)
                       /\ \A i \in DOMAIN df.rows : df.rows[i][c] = NaN
        filled(c) ==
            LET m == IF ~has_na(c) THEN NaNf
                     ELSE IF numeric(c) THEN mean(whole(c))
                     ELSE Frac(mode(whole(c)), 1)
            IN  [i \in 1..Len(category_data) |->
                    IF category_data[i][c] = NaN THEN m
                    ELSE Frac(category_data[i][c], 1)]
        x_cols == SelectSeq(feature_cols, LAMBDA c : c # "quantity_sold")
    IN  IF no_mode
        THEN [X |-> NoTable, y |-> <<>>, raised |-> "KeyError"]
        ELSE [X |-> [columns |-> x_cols,
                     rows |-> [i \in 1..Len(category_data) |->
                                  [c \in Range(x_cols) |-> filled(c)[i]]]],
              y |-> [i \in 1..Len(category_data) |->
                        filled("quantity_sold")[i]],
              raised |-> "none"]

\* prepare_features(df, category_col, selected_category).  mode()[0] raises
\* KeyError when the column has no value in the slice.
prepare_features(df, selected_category) ==
    LET category_data ==
            SelectSeq(df.rows, LAMBDA r : r.category = selected_category)
        feature_cols ==
            SelectSeq(df.columns, LAMBDA c : c \notin {"date", "category"})
        column(c) == [i \in 1..Len(category_data) |-> category_data[i][c]]
        has_na(c) == \E i \in DOMAIN category_data : category_data[i][c] = NaN
        \* pd.api.types.is_numeric_dtype
        numeric(c) == c \notin object_columns(df)
        no_mode == \E c \in Range(feature_cols) :
                       /\ has_na(c) /\ ~numeric(c)
                       /\ \A i \in DOMAIN category_data :
                              category_data[i][c] = NaN
        \* the column after the fill of lines 155-162
        filled(c) ==
            LET m == IF ~has_na(c) THEN NaNf
                     ELSE IF numeric(c) THEN mean(column(c))
                     ELSE Frac(mode(column(c)), 1)
            IN  [i \in 1..Len(category_data) |->
                    IF category_data[i][c] = NaN THEN m
                    ELSE Frac(category_data[i][c], 1)]
        x_cols == SelectSeq(feature_cols, LAMBDA c : c # "quantity_sold")
    IN  IF no_mode
        THEN [X |-> NoTable, y |-> <<>>, raised |-> "KeyError"]
        ELSE [X |-> [columns |-> x_cols,
                     rows |-> [i \in 1..Len(category_data) |->
                                  [c \in Range(x_cols) |-> filled(c)[i]]]],
              y |-> [i \in 1..Len(category_data) |->
                        filled("quantity_sold")[i]],
              raised |-> "none"]

HasNaN(X) ==
    \E i \in DOMAIN X.rows : \E c \in Range(X.columns) : X.rows[i][c] = NaNf

\* A plausible slip: the category is left out of the file name, so every
\* category is written to the same artifact.
ModelPath_shared(category) == <<"sales_forecast_", ".pkl">>

ModelPath(category) == <<"sales_forecast_", category, ".pkl">>

\* the fitted regressor: the feature names it was fitted with, and the
\* training target it can predict from
Fitted(category, p) ==
    [category |-> category,
     feature_names_in_ |-> p.X.columns,
     n_samples |-> Len(p.X.rows),
     y_min |-> Min({p.y[i].num : i \in DOMAIN p.y})]

\* one iteration of main's loop: train_model(category, data, category_col).
\* prepare_features may raise KeyError;
\* train_test_split raises ValueError on an empty slice or an empty training
\* part, cross_val_score(cv=5) on fewer than five rows; a regressor that
\* takes no NaN raises ValueError in fit; joblib.dump may fail to write.
\* train_model with the write of the artifact made best-effort: a model whose
\* joblib.dump failed is still returned to main's loop
train_model_keep_unsaved ==
    /\ pc = "train"
    /\ Len(models) < Len(PRODUCT_CATEGORIES)
    /\ LET category == PRODUCT_CATEGORIES[Len(models) + 1]
           p == prepare_features(data, category)
       IN  IF p.raised # "none"
           THEN /\ pc' = "failed"
                /\ err' = p.raised
                /\ UNCHANGED <<models, artifacts>>
           ELSE IF Len(p.X.rows) < CV_FOLDS \/ (HasNaN(p.X) /\ ~nan_ok)
           THEN /\ pc' = "failed"
                /\ err' = "ValueError"
                /\ UNCHANGED <<models, artifacts>>
           ELSE \E written \in BOOLEAN :
                   /\ artifacts' = IF written
                                   THEN {a \in artifacts :
                                            a.path # ModelPath(category)}
                                        \cup {[path |-> ModelPath(category),
                                               model |-> Fitted(category, p)]}
                                   ELSE artifacts
                   /\ models' = Append(models,
                                       [category |-> category,
                                        model |-> Fitted(category, p)])
                   /\ pc' = IF Len(models') = Len(PRODUCT_CATEGORIES)
                            THEN "forecast" ELSE "train"
                   /\ err' = IF written THEN "none" ELSE "OSError"
    /\ UNCHANGED <<daily_sales, external_factors, complete_sales, data,
                   forecast_df, predict_calls, forecast_csv, nan_ok, days,
                   resolver_vars, sales_vars, file_vars, prep_vars,
                   role_vars>>

train_model ==
    /\ pc = "train"
    /\ Len(models) < Len(PRODUCT_CATEGORIES)
    /\ LET category == PRODUCT_CATEGORIES[Len(models) + 1]
           p == prepare_features(data, category)
       IN  IF p.raised # "none"
           THEN /\ pc' = "failed"
                /\ err' = p.raised
                /\ UNCHANGED <<models, artifacts>>
           ELSE IF Len(p.X.rows) < CV_FOLDS \/ (HasNaN(p.X) /\ ~nan_ok)
           THEN /\ pc' = "failed"
                /\ err' = "ValueError"
                /\ UNCHANGED <<models, artifacts>>
           ELSE \E written \in BOOLEAN :
                   IF written
                   THEN /\ artifacts' = {a \in artifacts :
                                            a.path # ModelPath(category)}
                                \cup {[path |-> ModelPath(category),
                                       model |-> Fitted(category, p)]}
                        /\ models' = Append(models,
                                            [category |-> category,
                                             model |-> Fitted(category, p)])
                        /\ pc' = IF Len(models') = Len(PRODUCT_CATEGORIES)
                                 THEN "forecast" ELSE "train"
                        /\ err' = "none"
                   ELSE /\ pc' = "failed"
                        /\ err' = "OSError"
                        /\ UNCHANGED <<models, artifacts>>
    /\ UNCHANGED <<daily_sales, external_factors, complete_sales, data,
                   forecast_df, predict_calls, forecast_csv, nan_ok, days,
                   resolver_vars, sales_vars, file_vars, prep_vars,
                   role_vars>>

----------------------------------------------------------------------------
(* Forecast: generate_forecast                                             *)

FixedColumns ==
    {"date", "category", "quantity_sold", "dayofweek", "month", "day",
     "year", "quarter", "is_weekend"}

\* A plausible slip: iloc[0], the first known value instead of the last.
first_known(rows, col) ==
    LET known == SelectSeq(rows, LAMBDA r : r[col] # NaN)
    IN  IF known = <<>> THEN 0 ELSE known[1][col]

\* data[col].dropna().iloc[-1], or 0 when the column has no value
last_known(rows, col) ==
    LET known == SelectSeq(rows, LAMBDA r : r[col] # NaN)
    IN  IF known = <<>> THEN 0 ELSE known[Len(known)][col]

\* lines 243-269: the future dates, their time features and the latest
\* external factors
forecast_frame(df, periods) ==
    LET last_date == Max({df.rows[i].date : i \in DOMAIN df.rows})
        external_factor_cols ==
            SelectSeq(df.columns, LAMBDA c : c \notin FixedColumns)
        last_external_factors ==
            [c \in Range(external_factor_cols) |-> last_known(df.rows, c)]
    IN  [columns |-> <<"date", "dayofweek", "month", "day", "year",
                       "quarter", "is_weekend">> \o external_factor_cols,
         rows |-> [i \in 1..periods |->
                      [date |-> last_date + i]
                          @@ TimeFeatures(last_date + i)
                          @@ last_external_factors]]

\* forecast_df.drop('date', axis=1)
drop_date(df) ==
    LET cols == SelectSeq(df.columns, LAMBDA c : c # "date")
    IN  [columns |-> cols,
         rows |-> [i \in 1..Len(df.rows) |->
                      [c \in Range(cols) |-> df.rows[i][c]]]]

\* forecast_df[name] = values: a new last column, or the column of that
\* name overwritten
assign(df, name, values) ==
    [columns |-> IF name \in Range(df.columns) THEN df.columns
                 ELSE Append(df.columns, name),
     rows |-> [i \in 1..Len(df.rows) |->
                  [c \in (DOMAIN df.rows[i]) \cup {name} |->
                      IF c = name THEN values[i] ELSE df.rows[i][c]]]]

\* model.predict(X): the regressor's arithmetic is outside the model, a
\* prediction is represented by the least training target
predict(model, X) == [i \in 1..Len(X.rows) |-> model.y_min]

RECURSIVE predict_all(_, _, _)
\* lines 271-280: the loop over models.items().  predict raises ValueError
\* when X has not the features the model was fitted with.
predict_all(df, ms, calls) ==
    IF ms = <<>> THEN [df |-> df, calls |-> calls, err |-> "none"]
    ELSE LET category   == Head(ms).category
             model      == Head(ms).model
             X_forecast == drop_date(df)
             call       == [category |-> category,
                            columns |-> X_forecast.columns,
                            rows |-> X_forecast.rows]
         IN  IF X_forecast.columns # model.feature_names_in_
             THEN [df |-> df, calls |-> Append(calls, call),
                   err |-> "ValueError"]
             ELSE predict_all(assign(df, category, predict(model, X_forecast)),
                              Tail(ms), Append(calls, call))

\* generate_forecast(models, data, category_col, days); main calls it with
\* the default horizon
generate_forecast ==
    /\ pc = "forecast"
    /\ LET r == predict_all(forecast_frame(data, days), models, <<>>)
       IN  /\ forecast_df' = r.df
           /\ predict_calls' = r.calls
           /\ err' = r.err
           /\ IF r.err = "none"
              THEN forecast_csv' = r.df /\ pc' = "done"
              ELSE forecast_csv' = forecast_csv /\ pc' = "failed"
    /\ UNCHANGED <<daily_sales, external_factors, complete_sales, data,
                   models, artifacts, nan_ok, days, resolver_vars, sales_vars,
                   file_vars, prep_vars,
                   role_vars>>

----------------------------------------------------------------------------
(* The pipeline: main                                                      *)

Day(i) == BaseDay + i
Sale(d, c, q) == [date |-> d, category |-> c, quantity_sold |-> q]
Ext(d, p, l) == [date |-> d, political_climate |-> p, legislation_risk |-> l]

\* the SalesRecords as the aggregation leaves them: in (date, category)
\* order, one per (date, category)
SalesTables ==
    {s \in SeqsUpTo(SaleRows, MaxSales) :
        \A i \in 1..(Len(s) - 1) :
            KeyLess(<<s[i].date, s[i].category>>,
                    <<s[i + 1].date, s[i + 1].category>>)}

\* external-factor tables of the pipeline runs: none, a first day, gaps, a
\* date given twice, the first and the last day, the first two days, a
\* factor that is never observed
ExtSamples ==
    { <<>>,
      <<Ext(Day(0), 3, 7)>>,
      <<Ext(Day(1), 5, NaN), Ext(Day(3), NaN, 7)>>,
      <<Ext(Day(2), 3, 7), Ext(Day(2), 5, NaN)>>,
      <<Ext(Day(0), 3, NaN), Ext(Day(4), 5, 7)>>,
      <<Ext(Day(0), 3, 7), Ext(Day(1), 5, NaN)>>,
      <<Ext(Day(1), 5, NaN)>> }

\* SalesRecords of the feature-build runs: the whole span with both
\* categories, a span that starts late, one cell, one date with both
\* categories, the later category first
SalesSamples ==
    { <<Sale(Day(0), "handgun", 1), Sale(Day(4), "rifle", 2)>>,
      <<Sale(Day(1), "rifle", 1), Sale(Day(3), "rifle", 1)>>,
      <<Sale(Day(2), "handgun", 2)>>,
      <<Sale(Day(1), "handgun", 1), Sale(Day(1), "rifle", 1)>>,
      <<Sale(Day(0), "rifle", 1), Sale(Day(2), "handgun", 2)>> }

MainStart ==
    /\ complete_sales = <<>>
    /\ data = NoTable
    /\ models = <<>>
    /\ artifacts = {}
    /\ forecast_df = NoTable
    /\ predict_calls = <<>>
    /\ forecast_csv = NoTable
    /\ err = "none"
    /\ days = DEFAULT_DAYS
    /\ pc = "load"
    /\ ResolverIdle
    /\ SalesIdle
    /\ FileIdle
    /\ PrepIdle
    /\ RolesIdle

Init ==
    /\ daily_sales \in SalesTables
    /\ external_factors \in ExtSamples
    /\ nan_ok \in BOOLEAN
    /\ MainStart

Next == load_and_prepare_data \/ train_model \/ generate_forecast

Spec == Init /\ [][Next]_vars

\* the feature build on every external-factor table of the bounds
InitFeatures ==
    /\ daily_sales \in SalesSamples
    /\ external_factors \in SeqsUpTo(ExtRows, MaxExt)
    /\ nan_ok = FALSE
    /\ MainStart

NextFeatures == load_and_prepare_data

SpecFeatures == InitFeatures /\ [][NextFeatures]_vars

MaxHorizon == 3   \* the horizons of the forecast runs are 1..MaxHorizon

\* the dicts of models generate_forecast is given: a regressor fitted on the
\* slice of each category of the list, for lists of distinct categories of
\* the feature table
ModelDicts(df) ==
    LET present == {df.rows[i].category : i \in DOMAIN df.rows}
        lists == {cs \in SeqsUpTo(present, Cardinality(present)) :
                     /\ \A i, j \in DOMAIN cs : i # j => cs[i] # cs[j]
                     /\ \A i \in DOMAIN cs :
                            prepare_features(df, cs[i]).raised = "none"}
    IN  {[i \in DOMAIN cs |->
             [category |-> cs[i],
              model |-> Fitted(cs[i], prepare_features(df, cs[i]))]] :
         cs \in lists}

\* generate_forecast called on a feature table, with any horizon and any dict
\* of fitted models
InitForecast ==
    /\ daily_sales \in SalesSamples
    /\ external_factors \in ExtSamples
    /\ complete_sales = complete(daily_sales)
    /\ data = feature_table(build_features(complete_sales, external_factors),
                            external_factors)
    /\ models \in ModelDicts(data)
    /\ artifacts = {[path |-> ModelPath(models[i].category),
                     model |-> models[i].model] : i \in DOMAIN models}
    /\ days \in 1..MaxHorizon
    /\ nan_ok = TRUE
    /\ forecast_df = NoTable
    /\ predict_calls = <<>>
    /\ forecast_csv = NoTable
    /\ err = "none"
    /\ pc = "forecast"
    /\ ResolverIdle
    /\ SalesIdle
    /\ FileIdle
    /\ PrepIdle
    /\ RolesIdle

NextForecast == generate_forecast

SpecForecast == InitForecast /\ [][NextForecast]_vars

MaxRows == 4   \* rows of a feature table given to prepare_features

\* a row of a feature table: the i-th date, i sold, the two factors
FeatureRow(i, c, p, l) ==
    [date |-> BaseDay + i - 1, category |-> c, quantity_sold |-> i]
        @@ TimeFeatures(BaseDay + i - 1)
        @@ [political_climate |-> p, legislation_risk |-> l]

\* feature tables with a numeric factor that has gaps
NumericTables ==
    UNION {
      {[columns |-> DataColumns,
        rows |-> [i \in 1..n |-> FeatureRow(i, cs[i], ps[i], 7)],
        object_columns |-> {}] :
          cs \in [1..n -> Categories], ps \in [1..n -> {NaN, 3, 5}]} :
      n \in 0..MaxRows}

\* feature tables whose legislation_risk is of dtype object and has gaps; its
\* values 7 and 9 stand for two strings, in their sort order
ObjectTables ==
    UNION {
      {[columns |-> DataColumns,
        rows |-> [i \in 1..n |-> FeatureRow(i, cs[i], 3, ls[i])],
        object_columns |-> {"legislation_risk"}] :
          cs \in [1..n -> Categories], ls \in [1..n -> {NaN, 7, 9}]} :
      n \in 0..MaxRows}

\* prepare_features called on a feature table, for either category
InitPrepare ==
    /\ data \in NumericTables \cup ObjectTables
    /\ prep_category \in Categories
    /\ prepared = NoFeatures
    /\ daily_sales = <<>>
    /\ external_factors = <<>>
    /\ complete_sales = <<>>
    /\ models = <<>>
    /\ artifacts = {}
    /\ forecast_df = NoTable
    /\ predict_calls = <<>>
    /\ forecast_csv = NoTable
    /\ err = "none"
    /\ nan_ok = FALSE
    /\ days = 0
    /\ pc = "prepare"
    /\ ResolverIdle
    /\ SalesIdle
    /\ FileIdle
    /\ RolesIdle

\* A plausible slip: the non-feature columns are dropped from the frame the
\* caller passed (drop(..., inplace=True) on df) instead of from a copy.
call_prepare_features_in_place ==
    /\ pc = "prepare"
    /\ LET r == prepare_features(data, prep_category)
       IN  /\ prepared' = r
           /\ err' = r.raised
           /\ pc' = IF r.raised = "none" THEN "prepared" ELSE "failed"
    /\ data' = [data EXCEPT !.columns =
                    SelectSeq(data.columns,
                              LAMBDA c : c \notin {"date", "category"})]
    /\ UNCHANGED <<prep_category, daily_sales, external_factors,
                   complete_sales, models, artifacts, forecast_df,
                   predict_calls, forecast_csv, nan_ok, days, resolver_vars,
                   sales_vars, file_vars, role_vars>>

call_prepare_features ==
    /\ pc = "prepare"
    /\ LET r == prepare_features(data, prep_category)
       IN  /\ prepared' = r
           /\ err' = r.raised
           /\ pc' = IF r.raised = "none" THEN "prepared" ELSE "failed"
    /\ UNCHANGED <<prep_category, daily_sales, external_factors,
                   complete_sales, data, models, artifacts, forecast_df,
                   predict_calls, forecast_csv, nan_ok, days, resolver_vars,
                   sales_vars, file_vars, role_vars>>

NextPrepare == call_prepare_features

SpecPrepare == InitPrepare /\ [][NextPrepare]_vars

----------------------------------------------------------------------------
(* Claims about the calendar completer                                     *)

GridBuilt == pc \notin {"idle", "load"} /\ daily_sales # <<>>

SaleDates == {daily_sales[i].date : i \in DOMAIN daily_sales}
SaleCategories == {daily_sales[i].category : i \in DOMAIN daily_sales}
GridCells == {<<complete_sales[i].date, complete_sales[i].category>> :
                 i \in DOMAIN complete_sales}

\* C1: for every non-empty set of SalesRecords the completed grid has exactly
\* one row for every pair (d, c), d a day of [min date, max date] and c a
\* category observed in the records, and no other row: its size is
\* (max date - min date + 1) x |distinct categories|.
C1_GridIsDatesTimesCategories ==
    GridBuilt =>
        /\ GridCells = (Min(SaleDates)..Max(SaleDates)) \X SaleCategories
        /\ Len(complete_sales)
              = (Max(SaleDates) - Min(SaleDates) + 1) * Cardinality(SaleCategories)

\* C1 witness: a grid of two categories that has a day between two days of
\* sales, a day without any SalesRecord.
C1_Witness ==
    /\ GridBuilt
    /\ Cardinality(SaleCategories) = 2
    /\ \E i \in DOMAIN complete_sales :
          /\ complete_sales[i].date \notin SaleDates
          /\ complete_sales[i].date > Min(SaleDates)
          /\ complete_sales[i].date < Max(SaleDates)

\* C2: every cell of the grid that has a SalesRecord carries its
\* quantity_sold, every other cell has quantity_sold = 0, and the total
\* quantity over the grid is the total over the SalesRecords.
C2_GridKeepsQuantities ==
    GridBuilt =>
        /\ \A i \in DOMAIN complete_sales :
              LET recs == {k \in DOMAIN daily_sales :
                              /\ daily_sales[k].date = complete_sales[i].date
                              /\ daily_sales[k].category
                                    = complete_sales[i].category}
              IN  IF recs = {} THEN complete_sales[i].quantity_sold = 0
                  ELSE \A k \in recs :
                          complete_sales[i].quantity_sold
                              = daily_sales[k].quantity_sold
        /\ SumCol(complete_sales, "quantity_sold")
              = SumCol(daily_sales, "quantity_sold")

\* C2 witness: a grid with a cell filled with 0 on a date on which the other
\* category sold, and a cell that carries a quantity of 2.
C2_Witness ==
    /\ GridBuilt
    /\ \E i, j, k \in DOMAIN complete_sales :
          /\ complete_sales[i].quantity_sold = 0
          /\ complete_sales[j].date = complete_sales[i].date
          /\ complete_sales[j].quantity_sold > 0
          /\ complete_sales[k].quantity_sold = 2

\* C3 (as claimed): completing an empty set of SalesRecords raises the
\* explicit empty-input error before any grid is built; it returns no grid
\* and the run goes no further.
C3_EmptyInputRaisesEmptyInputError ==
    (pc \notin {"idle", "load"} /\ daily_sales = <<>>)
        => /\ pc = "failed"
           /\ err = "EmptyInputError"
           /\ complete_sales = <<>>
           /\ data = NoTable

----------------------------------------------------------------------------
(* Claims about the forecast's feature columns                             *)

ModelOf(category) ==
    (CHOOSE m \in Range(models) : m.category = category).model

\* C4 (as claimed): for every category in models, the feature columns given
\* to that category's model.predict are exactly its training feature
\* columns, same names in the same order, and the future feature rows are
\* the same for all categories.
C4_PredictGetsTrainingFeatures ==
    /\ \A k \in DOMAIN predict_calls :
          predict_calls[k].columns
              = ModelOf(predict_calls[k].category).feature_names_in_
    /\ \A k, l \in DOMAIN predict_calls :
          predict_calls[k].rows = predict_calls[l].rows

----------------------------------------------------------------------------
(* Claims about the feature build                                          *)

FeaturesBuilt == pc \notin {"idle", "load", "failed"} \/
                 (pc = "failed" /\ data # NoTable)

\* the dates, below date e and not below lo, for which the external-factor
\* table has a value of column c
KnownBefore(c, e, lo) ==
    {external_factors[i].date : i \in
        {k \in DOMAIN external_factors :
            /\ external_factors[k][c] # NaN
            /\ external_factors[k].date < e
            /\ external_factors[k].date >= lo}}

\* the value of column c at date d: of the last row of that date that has one
ValueAt(c, d) ==
    external_factors[Max({k \in DOMAIN external_factors :
                             /\ external_factors[k].date = d
                             /\ external_factors[k][c] # NaN})][c]

HasValueAt(c, d) ==
    \E k \in DOMAIN external_factors :
        external_factors[k].date = d /\ external_factors[k][c] # NaN

\* every row whose date has no value of column c carries the value of the
\* nearest earlier date, not below lo, that has one, and is missing if there
\* is no such date
FilledFromNearest(lo) ==
    \A i \in DOMAIN data.rows : \A c \in Range(ExternalFactorCols) :
        LET e == data.rows[i].date
            K == KnownBefore(c, e, lo)
        IN  ~HasValueAt(c, e) =>
                data.rows[i][c] = IF K = {} THEN NaN ELSE ValueAt(c, Max(K))

\* C5 (as claimed): after the feature build, every row whose date has no
\* value for an external-factor column in the external-factor table carries
\* the value at the nearest earlier date that has one; rows dated before
\* the first known value of the column stay missing.
C5_FilledFromNearestEarlierDate ==
    FeaturesBuilt => FilledFromNearest(0)

\* C5 (amended): the same, the nearest earlier date taken among the dates of
\* the grid, [min date, max date]: a value the table has for a date before
\* the grid's first date is not carried into the grid.
C5_FilledFromNearestEarlierGridDate ==
    FeaturesBuilt => FilledFromNearest(Min(SaleDates))

\* C5 witness: a row took its value from the nearest earlier date although
\* a still earlier date has another value, and a row dated before the
\* first known value of a column stayed missing.
C5_Witness ==
    /\ FeaturesBuilt
    /\ \E i \in DOMAIN data.rows :
          LET e == data.rows[i].date
              K == KnownBefore("political_climate", e, Min(SaleDates))
          IN  /\ ~HasValueAt("political_climate", e)
              /\ Cardinality(K) = 2
              /\ ValueAt("political_climate", Min(K))
                    # ValueAt("political_climate", Max(K))
              /\ data.rows[i].political_climate
                    = ValueAt("political_climate", Max(K))
    /\ \E i \in DOMAIN data.rows :
          /\ data.rows[i].legislation_risk = NaN
          /\ \E j \in DOMAIN data.rows :
                /\ data.rows[j].date > data.rows[i].date
                /\ data.rows[j].legislation_risk # NaN

\* C6 (as claimed): in the feature table, any two rows with the same date
\* have the same value in every external-factor column, joined directly or
\* forward-filled.
C6_SameDateSameFactors ==
    FeaturesBuilt =>
        \A i, j \in DOMAIN data.rows :
            data.rows[i].date = data.rows[j].date =>
                \A c \in Range(ExternalFactorCols) :
                    data.rows[i][c] = data.rows[j][c]

----------------------------------------------------------------------------
(* Claims about the forecast table                                         *)

Forecasted == pc \in {"done", "failed"} /\ forecast_df # NoTable

LastDate == Max({data.rows[i].date : i \in DOMAIN data.rows})

\* C15 (as claimed): generate_forecast(models, data, days = h) returns exactly
\* h rows, whose dates are the h consecutive days that start the day after
\* the maximum date in data, for every horizon h >= 1 (and every models).
C15_ReturnsHorizonRows ==
    Forecasted =>
        /\ pc = "done"
        /\ Len(forecast_df.rows) = days
        /\ \A i \in 1..days : forecast_df.rows[i].date = LastDate + i

\* C16: in the forecast table every external-factor column holds one value in
\* all rows of the horizon, and when the feature table has a value for the
\* factor it is the value of a row of the latest date that has one.
C16_FactorsHeldAtLastKnown ==
    Forecasted =>
        \A c \in Range(ExternalFactorCols) :
            LET known == {i \in DOMAIN data.rows : data.rows[i][c] # NaN}
                latest == Max({data.rows[i].date : i \in known})
            IN  /\ \A i, j \in DOMAIN forecast_df.rows :
                       forecast_df.rows[i][c] = forecast_df.rows[j][c]
                /\ known # {} =>
                       \A i \in DOMAIN forecast_df.rows :
                           \E k \in known :
                               /\ data.rows[k].date = latest
                               /\ forecast_df.rows[i][c] = data.rows[k][c]

\* C16 witness: a forecast of two rows or more was returned; the factor was 3
\* at first and 5 later in the feature table, and is 5 in the last forecast
\* row; the other factor was carried to the last date by the forward fill.
C16_Witness ==
    /\ pc = "done"
    /\ models # <<>>
    /\ days >= 2
    /\ forecast_df.rows[days].political_climate = 5
    /\ \E i \in DOMAIN data.rows : data.rows[i].political_climate = 3
    /\ forecast_df.rows[days].legislation_risk = 7
    /\ \A k \in DOMAIN external_factors :
           external_factors[k].legislation_risk = 7
               => external_factors[k].date < LastDate
    /\ \A j, k \in DOMAIN external_factors :
           j # k => external_factors[j].date # external_factors[k].date

\* C17 (as claimed): the forecast table returned and written has exactly the
\* columns date and one prediction column per category of models.
C17_ColumnsAreDateAndCategories ==
    pc = "done" =>
        LET expected ==
                {"date"} \cup {models[i].category : i \in DOMAIN models}
        IN  /\ Range(forecast_df.columns) = expected
            /\ Range(forecast_csv.columns) = expected

----------------------------------------------------------------------------
(* Claims about prepare_features                                           *)

\* the rows of the selected category, as positions of the feature table
Slice == SelectSeq([i \in DOMAIN data.rows |-> i],
                   LAMBDA i : data.rows[i].category = prep_category)

FeatureCols == Range(data.columns) \ {"date", "category"}

\* the cell prepare_features returned for the k-th row of the slice
Returned(k, c) ==
    IF c = "quantity_sold" THEN prepared.y[k] ELSE prepared.X.rows[k][c]

KnownIn(c) == {k \in DOMAIN Slice : data.rows[Slice[k]][c] # NaN}

\* how often value v occurs in column c of the slice
Occurrences(c, v) ==
    Cardinality({k \in DOMAIN Slice : data.rows[Slice[k]][c] = v})

\* C18: prepare_features leaves every known cell as it is, fills a missing
\* numeric cell with the mean of the known cells of that column in the
\* selected category's rows, and a missing non-numeric cell with the most
\* frequent known value of those rows; rows of other categories play no part.
C18_FilledFromTheSliceOnly ==
    pc = "prepared" =>
        /\ Len(prepared.X.rows) = Len(Slice)
        /\ Len(prepared.y) = Len(Slice)
        /\ \A k \in DOMAIN Slice : \A c \in FeatureCols :
              LET cell == data.rows[Slice[k]][c]
                  got  == Returned(k, c)
                  total == SumSet(KnownIn(c),
                                  [j \in KnownIn(c) |-> data.rows[Slice[j]][c]])
              IN  /\ cell # NaN => got = [num |-> cell, den |-> 1]
                  /\ (cell = NaN /\ KnownIn(c) # {}
                         /\ c \notin object_columns(data)) =>
                        /\ got.den > 0
                        /\ got.num * Cardinality(KnownIn(c)) = total * got.den
                  /\ (cell = NaN /\ KnownIn(c) # {}
                         /\ c \in object_columns(data)) =>
                        /\ got.den = 1
                        /\ \E j \in KnownIn(c) :
                               data.rows[Slice[j]][c] = got.num
                        /\ \A j \in KnownIn(c) :
                               LET w == data.rows[Slice[j]][c]
                               IN  \/ Occurrences(c, got.num) > Occurrences(c, w)
                                   \/ /\ Occurrences(c, got.num)
                                             = Occurrences(c, w)
                                      /\ got.num <= w

\* C18 witness (mean): the slice has the factor at 3 and at 5 and a missing
\* cell, filled with 4; a row of the other category has the factor at 5.
C18_Witness ==
    /\ pc = "prepared"
    /\ object_columns(data) = {}
    /\ \E k \in DOMAIN Slice :
          /\ data.rows[Slice[k]].political_climate = NaN
          /\ prepared.X.rows[k].political_climate = [num |-> 4, den |-> 1]
    /\ \E i \in DOMAIN data.rows :
          /\ data.rows[i].category # prep_category
          /\ data.rows[i].political_climate = 5

\* a second case of C18 (mode): the slice has the value 9 twice, 7 once and a
\* missing cell, filled with 9; the other category is not in the table
C18_Witness_Mode ==
    /\ pc = "prepared"
    /\ "legislation_risk" \in object_columns(data)
    /\ Len(Slice) = 4
    /\ Occurrences("legislation_risk", 9) = 2
    /\ Occurrences("legislation_risk", 7) = 1
    /\ \E k \in DOMAIN Slice :
          /\ data.rows[Slice[k]].legislation_risk = NaN
          /\ prepared.X.rows[k].legislation_risk = [num |-> 9, den |-> 1]

----------------------------------------------------------------------------
(* Claims about the training boundary and the run's failures               *)

\* C19 (as claimed): no unresolved value passes the training boundary: for
\* every category either the X and y given to the regressor have every cell
\* resolved, or an error is raised for that category (so no model is kept).
C19_NoUnresolvedValueIsTrained ==
    \A i \in DOMAIN models :
        LET p == prepare_features(data, models[i].category)
        IN  /\ ~HasNaN(p.X)
            /\ \A k \in DOMAIN p.y : p.y[k] # NaNf

\* training of category c, taken alone, raises nothing
Trainable(c) ==
    LET p == prepare_features(data, c)
    IN  /\ p.raised = "none"
        /\ Len(p.X.rows) >= CV_FOLDS
        /\ (HasNaN(p.X) => nan_ok)

FailedInTraining == pc = "failed" /\ data # NoTable /\ forecast_df = NoTable

\* C20 (as claimed): when the training or the persisting of one category's
\* model fails, every other category of the run is still trained and
\* persisted.
C20_FailureIsPerCategory ==
    FailedInTraining =>
        \A k \in DOMAIN PRODUCT_CATEGORIES :
            (k # Len(models) + 1 /\ Trainable(PRODUCT_CATEGORIES[k]))
                => \E a \in artifacts :
                       a.path = ModelPath(PRODUCT_CATEGORIES[k])

----------------------------------------------------------------------------
(* Claims about the categories of a run and about zero-filling             *)

\* the distinct categories observed in the feature table
ObservedCategories == {data.rows[i].category : i \in DOMAIN data.rows}

\* C21 (as claimed): the categories a run trains models for are the distinct
\* categories observed in the data, not the configured list: no model is
\* trained for, and no run fails on, a category absent from the data, and the
\* models handed to the forecast are those of the observed categories.
C21_TrainsObservedCategories ==
    data # NoTable =>
        /\ \A i \in DOMAIN models : models[i].category \in ObservedCategories
        /\ FailedInTraining =>
               PRODUCT_CATEGORIES[Len(models) + 1] \in ObservedCategories
        /\ pc \in {"forecast", "done"} =>
               {models[i].category : i \in DOMAIN models} = ObservedCategories

\* the values the external-factor series has for factor c
SeriesValues(c) ==
    {external_factors[k][c] : k \in DOMAIN external_factors} \ {NaN}

\* C22 (as claimed): in the feature table and in the forecast rows an
\* external-factor cell is a value of the external-factor series or is left
\* unresolved; it is never a filled-in 0.
C22_NoZeroForMissingFactor ==
    \A c \in Range(ExternalFactorCols) :
        /\ data # NoTable =>
               \A i \in DOMAIN data.rows :
                   data.rows[i][c] \in SeriesValues(c) \cup {NaN}
        /\ forecast_df # NoTable =>
               \A i \in DOMAIN forecast_df.rows :
                   forecast_df.rows[i][c] \in SeriesValues(c) \cup {NaN}

----------------------------------------------------------------------------
(* Claims about the calendar features                                      *)

IsLeap(y) == (y % 4 = 0 /\ y % 100 # 0) \/ y % 400 = 0

DaysInMonth(y, m) ==
    CASE m \in {4, 6, 9, 11} -> 30
      [] m = 2 -> IF IsLeap(y) THEN 29 ELSE 28
      [] OTHER -> 31

RECURSIVE DaysBeforeMonth(_, _)
DaysBeforeMonth(y, m) ==
    IF m = 1 THEN 0 ELSE DaysBeforeMonth(y, m - 1) + DaysInMonth(y, m - 1)

\* the leap years among the years 1 .. n
LeapYearsUpTo(n) == n \div 4 - n \div 100 + n \div 400

\* the day number of a calendar date, counted from 1970-01-01
DayNumber(y, m, d) ==
    365 * (y - 1970) + LeapYearsUpTo(y - 1) - LeapYearsUpTo(1969)
        + DaysBeforeMonth(y, m) + d - 1

\* the calendar features of row r are those of its date; 2024-01-01, day
\* 19723, was a Monday
CalendarOK(r) ==
    /\ r.dayofweek \in 0..6
    /\ r.dayofweek = (r.date - 19723) % 7
    /\ r.month \in 1..12
    /\ r.day \in 1..DaysInMonth(r.year, r.month)
    /\ DayNumber(r.year, r.month, r.day) = r.date
    /\ r.quarter \in 1..4
    /\ r.quarter = (r.month - 1) \div 3 + 1
    /\ r.is_weekend = IF r.dayofweek \in {5, 6} THEN 1 ELSE 0

SixFeatures == <<"dayofweek", "month", "day", "year", "quarter", "is_weekend">>

\* C23: every row of the feature table and of the forecast table has the
\* calendar features of its date (dayofweek 0..6 with Monday 0, month 1..12,
\* day of month, quarter = (month - 1) div 3 + 1, is_weekend = 1 exactly on
\* days 5 and 6), and both tables have the same six features in one order.
C23_CalendarFeaturesOfTheDate ==
    /\ data # NoTable =>
          /\ \A i \in DOMAIN data.rows : CalendarOK(data.rows[i])
          /\ SelectSeq(data.columns, LAMBDA c : c \in Range(SixFeatures))
                 = SixFeatures
    /\ forecast_df # NoTable =>
          /\ \A i \in DOMAIN forecast_df.rows : CalendarOK(forecast_df.rows[i])
          /\ SelectSeq(forecast_df.columns,
                       LAMBDA c : c \in Range(SixFeatures)) = SixFeatures

\* C23 witness: the feature table has a Saturday of the fourth quarter of
\* 2023 and a weekday of 2024; the forecast table has 2024-02-29, a Thursday,
\* and a day of the second quarter.
C23_Witness ==
    /\ data # NoTable
    /\ forecast_df # NoTable
    /\ \E i \in DOMAIN data.rows :
          /\ data.rows[i].year = 2023 /\ data.rows[i].quarter = 4
          /\ data.rows[i].dayofweek = 5 /\ data.rows[i].is_weekend = 1
    /\ \E i \in DOMAIN data.rows :
          data.rows[i].year = 2024 /\ data.rows[i].is_weekend = 0
    /\ \E i \in DOMAIN forecast_df.rows :
          /\ forecast_df.rows[i].month = 2 /\ forecast_df.rows[i].day = 29
          /\ forecast_df.rows[i].dayofweek = 3
    /\ \E i \in DOMAIN forecast_df.rows : forecast_df.rows[i].quarter = 2

----------------------------------------------------------------------------
(* Claims about the forward fill                                           *)

\* C24: the forward fill is idempotent: applied once more to the
\* external-factor columns of the feature table, which are already
\* forward-filled, it changes no cell.
C24_FfillIsIdempotent ==
    FeaturesBuilt =>
        ffill(data.rows, Range(ExternalFactorCols)) = data.rows

\* C24 witness: the first fill did change the table: two rows in succession
\* hold a carried value of a factor their dates have no value for, and a cell
\* before the first known value is still missing.
C24_Witness ==
    /\ FeaturesBuilt
    /\ \E i \in DOMAIN data.rows :
          /\ i >= 3
          /\ \A j \in {i - 1, i} :
                /\ ~HasValueAt("political_climate", data.rows[j].date)
                /\ data.rows[j].political_climate # NaN
    /\ \E i \in DOMAIN data.rows : data.rows[i].legislation_risk = NaN
    /\ \E i \in DOMAIN data.rows : data.rows[i].legislation_risk # NaN

----------------------------------------------------------------------------
(* Claims about the order of the stages of a run                           *)

\* the model of every category of the run is in models, fitted, and its
\* artifact is on disk
AllTrainedAndPersisted ==
    /\ [i \in DOMAIN models |-> models[i].category] = PRODUCT_CATEGORIES
    /\ \A i \in DOMAIN models :
          /\ models[i].model.n_samples >= CV_FOLDS
          /\ [path |-> ModelPath(models[i].category),
              model |-> models[i].model] \in artifacts

\* C25: a run of main goes through load/prepare, then the training of each
\* category, then the forecast, in that order: no step goes back to an
\* earlier stage, the prepared data is built once and never rebuilt, the
\* categories are trained in the order of the list, and generate_forecast
\* starts (and calls predict) only when train_model has returned for every
\* category, each model handed to it being fitted and persisted.
C25_StagesRunInOrder ==
    [][ /\ pc = "load" => pc' \in {"train", "failed"}
        /\ pc = "train" => pc' \in {"train", "forecast", "failed"}
        /\ pc = "forecast" => pc' \in {"done", "failed"}
        /\ pc \in {"done", "failed"} => pc' = pc
        /\ pc # "load" => data' = data /\ complete_sales' = complete_sales
        /\ pc # "train" => models' = models /\ artifacts' = artifacts
        /\ pc = "train" /\ models' # models
               => /\ Len(models') = Len(models) + 1
                  /\ SubSeq(models', 1, Len(models)) = models
                  /\ models'[Len(models')].category
                         = PRODUCT_CATEGORIES[Len(models')]
        /\ pc' = "forecast" \/ predict_calls' # predict_calls
               => AllTrainedAndPersisted' ]_vars

\* generate_forecast has run and called predict, after both categories were
\* trained and persisted
C25_Witness ==
    /\ pc \in {"done", "failed"}
    /\ predict_calls # <<>>
    /\ AllTrainedAndPersisted
    /\ Len(models) = Len(PRODUCT_CATEGORIES)

----------------------------------------------------------------------------
(* Claims about the independence of the categories in the forecast         *)

\* the call of predict a category gets when generate_forecast is given its
\* model alone
PredictedAlone(m) ==
    predict_all(forecast_frame(data, days), <<m>>, <<>>).calls[1]

\* C26 (as claimed): the feature rows and columns read for a category's
\* prediction do not depend on the categories predicted before it: each call
\* of predict gets the input the category gets when it is processed alone,
\* so the inputs are the same for every processing order of the categories.
C26_InputsIndependentOfOrder ==
    \A k \in DOMAIN predict_calls :
        predict_calls[k] = PredictedAlone(models[k])

----------------------------------------------------------------------------
(* Claims about the size of the feature table                              *)

\* the dates and the categories of the dense grid
GridDates == {complete_sales[i].date : i \in DOMAIN complete_sales}

GridCategories == {complete_sales[i].category : i \in DOMAIN complete_sales}

\* C27 (as claimed): after the left join of the external-factor table the
\* feature table has exactly one row per (date, category) cell of the grid,
\* and so |dates| x |categories| rows, for every external-factor table.
C27_OneRowPerGridCell ==
    FeaturesBuilt =>
        /\ Len(data.rows) = Cardinality(GridDates) * Cardinality(GridCategories)
        /\ \A d \in GridDates, c \in GridCategories :
              Cardinality({i \in DOMAIN data.rows :
                              /\ data.rows[i].date = d
                              /\ data.rows[i].category = c}) = 1

----------------------------------------------------------------------------
(* Claims about the model artifacts                                        *)

\* every model main holds is the one in the artifact of its category, each
\* artifact is at the path of the category of its model, and no path holds
\* two artifacts
ArtifactsMatchModels ==
    /\ \A i \in DOMAIN models :
          [path |-> ModelPath(models[i].category),
           model |-> models[i].model] \in artifacts
    /\ \A a \in artifacts :
          /\ a.path = ModelPath(a.model.category)
          /\ \E i \in DOMAIN models : models[i].model = a.model
    /\ \A a, b \in artifacts : a.path = b.path => a = b
    /\ Cardinality(artifacts) = Len(models)

\* C28: the artifact of a category is written, at the path of that category,
\* only by the step that fitted and evaluated its model; an artifact on disk
\* and a model held by main are never changed or removed afterwards (the
\* forecast only calls predict), so each model used for the forecast is the
\* fitted model in its own artifact.
C28_ArtifactIsTheFittedModel ==
    [][ /\ \A a \in artifacts : a \in artifacts'
        /\ Len(models') >= Len(models)
        /\ \A i \in DOMAIN models : models'[i] = models[i]
        /\ artifacts' # artifacts
               => /\ pc = "train"
                  /\ Len(models') = Len(models) + 1
                  /\ LET m == models'[Len(models')]
                     IN  /\ artifacts' \ artifacts
                               = {[path |-> ModelPath(m.category),
                                   model |-> m.model]}
                         /\ m.model
                               = Fitted(m.category,
                                        prepare_features(data, m.category))
        /\ ArtifactsMatchModels' ]_vars

\* the forecast has called predict on a model while the artifacts of two
\* categories are on disk at two paths
C28_Witness ==
    /\ predict_calls # <<>>
    /\ \E a, b \in artifacts : a.path # b.path
    /\ ArtifactsMatchModels

----------------------------------------------------------------------------
(* Claims about the tables a stage is given                                *)

\* each of the three stages on its own inputs: prepare_features on a feature
\* table, generate_forecast on a feature table and its models, and
\* load_datasets / prepare_sales_data on the three sales tables
InitStages == InitPrepare \/ InitForecast \/ InitSales

NextStages ==
    \/ call_prepare_features
    \/ generate_forecast
    \/ load_datasets
    \/ prepare_sales_data

SpecStages == InitStages /\ [][NextStages]_vars

\* C29: no stage changes a table it is given: the call of prepare_features
\* and the call of generate_forecast leave the feature table as it was
\* (columns, dtypes, rows and values), and prepare_sales_data leaves the
\* transactions, transaction-items and products tables as they were.
C29_InputTablesUnchanged ==
    [][ /\ pc \in {"prepare", "forecast"} => data' = data
        /\ spc = "prepare" => /\ transactions' = transactions
                              /\ transaction_items' = transaction_items
                              /\ products' = products ]_vars

\* prepare_features has returned a slice whose missing cells it filled, and
\* the table it was given still has them
C29_Witness ==
    /\ pc = "prepared"
    /\ ~HasNaN(prepared.X)
    /\ prepared.X.rows # <<>>
    /\ "date" \in Range(data.columns)
    /\ \E i \in DOMAIN data.rows :
          /\ data.rows[i].category = prep_category
          /\ \E c \in Range(ExternalFactorCols) : data.rows[i][c] = NaN

----------------------------------------------------------------------------
(* Key columns: the date role of the two tables                            *)

\* the pattern lists of the two calls that identify the date columns
TransactionsDatePatterns == <<Pat_date, Pat_time>>

ExternalFactorsDatePatterns == <<Pat_date>>

InitRoles ==
    /\ tx_columns \in SeqsUpTo(ColumnNames, MaxCols)
    /\ ext_columns \in SeqsUpTo(ColumnNames, MaxCols)
    /\ key_columns = NoKeys
    /\ kpc = "identify"
    /\ ResolverIdle
    /\ SalesIdle
    /\ daily_sales = <<>>
    /\ MainIdle
    /\ FileIdle
    /\ PrepIdle

\* transactions_date_col = find_column_by_pattern(transactions, ['date', 'time'])
\* external_factors_date_col = find_column_by_pattern(external_factors, ['date'])
\* The IndexError of a table without columns ends the block.
identify_key_columns ==
    /\ kpc = "identify"
    /\ LET t == find_column_by_pattern(tx_columns, TransactionsDatePatterns)
           e == find_column_by_pattern(ext_columns,
                                       ExternalFactorsDatePatterns)
       IN  IF t.raised # "none" \/ e.raised # "none"
           THEN /\ key_columns' = NoKeys
                /\ kpc' = "raised"
           ELSE /\ key_columns' =
                      [transactions_date_col |-> t.result,
                       external_factors_date_col |-> e.result]
                /\ kpc' = "identified"
    /\ UNCHANGED <<tx_columns, ext_columns, resolver_vars, file_vars,
                   sales_vars, daily_sales, main_vars, prep_vars>>

NextRoles == identify_key_columns

SpecRoles == InitRoles /\ [][NextRoles]_vars

\* the column names of a table that contain the pattern, ignoring case
ColumnsWith(columns, pat) ==
    SelectSeq(columns, LAMBDA col : Contains(lower(pat), lower(col)))

\* the date column is the first column whose name contains "date", or, when
\* no name contains "date", the first column whose name contains "time"
DateThenTime(columns, chosen) ==
    /\ ColumnsWith(columns, Pat_date) # <<>>
           => chosen = Head(ColumnsWith(columns, Pat_date))
    /\ ColumnsWith(columns, Pat_date) = <<>>
       /\ ColumnsWith(columns, Pat_time) # <<>>
           => chosen = Head(ColumnsWith(columns, Pat_time))

\* C30 (as claimed): the date role is resolved with the patterns "date" then
\* "time" on the transactions table and, independently, on the
\* external-factors table: on either table a column whose name contains
\* "time" is chosen when no column name contains "date".
C30_DateRoleIsDateThenTime ==
    kpc = "identified" =>
        /\ DateThenTime(tx_columns, key_columns.transactions_date_col)
        /\ DateThenTime(ext_columns, key_columns.external_factors_date_col)

=============================================================================
